---- MODULE Spec2Model ----
(***************************************************************************)
(* State-machine model of src/app.js: the WhatsApp session state kept in  *)
(* isClientReady / clientState, the transport lifecycle handlers, the     *)
(* grace and re-initialize timers, and the three HTTP endpoints           *)
(* (/send-message, /status, /restart) cut at every await.                 *)
(*                                                                         *)
(* JavaScript runs each handler to its next await without interruption,   *)
(* so every action below is one such run-to-completion segment.  Timers   *)
(* are fire-once and are never cancelled by the code; a pending timer may *)
(* fire at any later step (time itself is not modelled).                  *)
(***************************************************************************)
EXTENDS Integers, Sequences, FiniteSets, Bags, TLC

VARIABLES
    isClientReady,   \* app.js:11
    clientState,     \* app.js:12
    timers,          \* bag of pending setTimeout callbacks (app.js:72, 97, 243)
    sleeping,        \* bag of /send-message requests suspended in sleep(2000)
    sending,         \* bag of /send-message requests awaiting client.sendMessage
    statusPending,   \* bag of /status requests awaiting client.getState
    restartPending,  \* number of /restart requests awaiting client.destroy
    last             \* what the last step did: handler, HTTP response, transport call

vars == <<isClientReady, clientState, timers, sleeping, sending, statusPending,
          restartPending, last>>

session == <<isClientReady, clientState>>

(***************************************************************************)
(* Bounds of the model.                                                    *)
(***************************************************************************)
\* pending timers at any instant
MaxTimers == 2
\* HTTP requests suspended at an await at any instant
MaxInflight == 2

(***************************************************************************)
(* Strings are sequences of one-character strings, so that replace,       *)
(* startsWith, substring and includes are computed, not assumed.          *)
(***************************************************************************)
Digits == {"0", "1", "2", "3", "4", "5", "6", "7", "8", "9"}

\* number.replace(/\D/g, '')
StripNonDigits(s) == SelectSeq(s, LAMBDA c : c \in Digits)

\* String.prototype.startsWith
StartsWith(s, p) == Len(s) >= Len(p) /\ SubSeq(s, 1, Len(p)) = p

\* String.prototype.includes (case-sensitive substring search)
Includes(s, p) == \E i \in 0..(Len(s) - Len(p)) : SubSeq(s, i + 1, i + Len(p)) = p

\* the '@c.us' literal of app.js:125 and app.js:154
DomainSuffix == <<"@", "c", ".", "u", "s">>

\* the '62' literal of app.js:118 and app.js:122
CountryPrefix == <<"6", "2">>

isValidPhoneNumber(number) ==
    LET cleanNumber == StripNonDigits(number)
    IN  Len(cleanNumber) >= 10 /\ Len(cleanNumber) <= 15

\* a formatter that keeps the leading 0 when it puts the country prefix in front
formatPhoneNumberKeepsZero(number) ==
    LET c0 == StripNonDigits(number)
        c1 == IF StartsWith(c0, <<"0">>) THEN CountryPrefix \o c0 ELSE c0
        c2 == IF ~StartsWith(c1, CountryPrefix) /\ Len(c1) > 10
              THEN CountryPrefix \o c1
              ELSE c1
    IN  c2 \o DomainSuffix

formatPhoneNumber(number) ==
    LET c0 == StripNonDigits(number)
        c1 == IF StartsWith(c0, <<"0">>)
              THEN CountryPrefix \o SubSeq(c0, 2, Len(c0))
              ELSE c0
        c2 == IF ~StartsWith(c1, CountryPrefix) /\ Len(c1) > 10
              THEN CountryPrefix \o c1
              ELSE c1
    IN  c2 \o DomainSuffix

\* app.js:154
ChatIdOf(number) ==
    IF Includes(number, DomainSuffix) THEN number ELSE formatPhoneNumber(number)

(***************************************************************************)
(* JavaScript values of the JSON request body.                             *)
(***************************************************************************)
Undef == [t |-> "undef"]
Num(n) == [t |-> "num", n |-> n]
Str(s) == [t |-> "str", s |-> s]

\* JavaScript truthiness, as used by  !number || !message  (app.js:133)
Truthy(v) ==
    CASE v.t = "undef" -> FALSE
      [] v.t = "num"   -> v.n # 0
      [] v.t = "str"   -> v.s # <<>>

(***************************************************************************)
(* The last step.                                                          *)
(*   op      the handler or callback that ran                             *)
(*   outcome "none" (no HTTP request involved), "pending" (the request is *)
(*           suspended at an await), "responded", or "fault" (the handler *)
(*           threw outside every try block: no response is written)       *)
(*   code    HTTP status of the response, 0 when there is none            *)
(*   kind    the kind of response body ("Sent", "NotReady", ...), "-"     *)
(*           when there is none                                            *)
(*   call    the transport operation the step invoked, "none" otherwise   *)
(*   error   the error field of a 500 response body, <<>> otherwise       *)
(*   cred    the secret an arriving request presented, "-" otherwise      *)
(*   state, ready   the clientState / clientReady fields of a /status     *)
(*           response body ("-" / FALSE otherwise)                        *)
(***************************************************************************)
Step(op, outcome, code, kind, call) ==
    [op |-> op, outcome |-> outcome, code |-> code, kind |-> kind, call |-> call,
     state |-> "-", ready |-> FALSE, error |-> <<>>, cred |-> "-"]

Event(op) == Step(op, "none", 0, "-", "none")

Respond(op, code, kind) == Step(op, "responded", code, kind, "none")

Pending(op, call) == Step(op, "pending", 0, "-", call)

Fault(op) == Step(op, "fault", 0, "-", "none")

Inflight ==
    BagCardinality(sleeping) + BagCardinality(sending)
        + BagCardinality(statusPending) + restartPending

One(x) == SetToBag({x})

(***************************************************************************)
(* Timers: a pending callback is named by the setTimeout that armed it,   *)
(* "auth" (app.js:72, 5000 ms), "load" (app.js:97, 3000 ms) or "init"     *)
(* (app.js:243, 2000 ms).  The code never calls clearTimeout.             *)
(***************************************************************************)
GraceKinds == {"auth", "load"}

(***************************************************************************)
(* Initial state: module load, app.js:11-12 and client.initialize() at    *)
(* app.js:128.                                                             *)
(***************************************************************************)
Init ==
    /\ isClientReady = FALSE
    /\ clientState = "INITIALIZING"
    /\ timers = EmptyBag
    /\ sleeping = EmptyBag
    /\ sending = EmptyBag
    /\ statusPending = EmptyBag
    /\ restartPending = 0
    /\ last = Step("start", "none", 0, "-", "initialize")

requests == <<sleeping, sending, statusPending, restartPending>>

(***************************************************************************)
(* Transport lifecycle events (client.on handlers).  The transport is an  *)
(* external collaborator: it may emit any event at any time.              *)
(***************************************************************************)
\* a 'qr' handler that names the state QR_PENDING
OnQrPending ==
    /\ isClientReady' = FALSE
    /\ clientState' = "QR_PENDING"
    /\ last' = Event("qr")
    /\ UNCHANGED <<timers, requests>>

OnQr ==
    /\ isClientReady' = FALSE
    /\ clientState' = "QR_GENERATED"
    /\ last' = Event("qr")
    /\ UNCHANGED <<timers, requests>>

OnReady ==
    /\ isClientReady' = TRUE
    /\ clientState' = "CONNECTED"
    /\ last' = Event("ready")
    /\ UNCHANGED <<timers, requests>>

OnAuthenticated ==
    /\ BagCardinality(timers) < MaxTimers
    /\ clientState' = "AUTHENTICATED"
    /\ timers' = timers (+) One("auth")
    /\ last' = Event("authenticated")
    /\ UNCHANGED <<isClientReady, requests>>

OnAuthFailure ==
    /\ isClientReady' = FALSE
    /\ clientState' = "AUTH_FAILURE"
    /\ last' = Event("auth_failure")
    /\ UNCHANGED <<timers, requests>>

OnDisconnected ==
    /\ isClientReady' = FALSE
    /\ clientState' = "DISCONNECTED"
    /\ last' = Event("disconnected")
    /\ UNCHANGED <<timers, requests>>

\* loading percentages the transport reports
Percents == {50, 100}

OnLoadingScreen(percent) ==
    /\ clientState' = "LOADING"
    /\ IF percent = 100
       THEN /\ BagCardinality(timers) < MaxTimers
            /\ timers' = timers (+) One("load")
       ELSE UNCHANGED timers
    /\ last' = Event("loading_screen")
    /\ UNCHANGED <<isClientReady, requests>>

(***************************************************************************)
(* Timer callbacks.                                                        *)
(***************************************************************************)
\* the 5 s timer with the test of the 3 s timer
AuthTimerIgnoresState == ~isClientReady

\* the condition of app.js:73
AuthTimerPromotes == clientState = "AUTHENTICATED"

\* the condition of app.js:98
LoadTimerPromotes == ~isClientReady

AuthTimerFires(t) ==
    /\ t = "auth"
    /\ BagIn(t, timers)
    /\ timers' = timers (-) One(t)
    /\ IF AuthTimerPromotes
       THEN isClientReady' = TRUE /\ clientState' = "CONNECTED"
       ELSE UNCHANGED session
    /\ last' = Event("auth_timer")
    /\ UNCHANGED requests

LoadTimerFires(t) ==
    /\ t = "load"
    /\ BagIn(t, timers)
    /\ timers' = timers (-) One(t)
    /\ IF LoadTimerPromotes
       THEN isClientReady' = TRUE /\ clientState' = "CONNECTED"
       ELSE UNCHANGED session
    /\ last' = Event("load_timer")
    /\ UNCHANGED requests

InitTimerFires(t) ==
    /\ t = "init"
    /\ BagIn(t, timers)
    /\ timers' = timers (-) One(t)
    /\ last' = Step("init_timer", "none", 0, "-", "initialize")
    /\ UNCHANGED <<session, requests>>

(***************************************************************************)
(* HTTP requests.  A request carries the x-secret-key header, and the     *)
(* secret_key, number and message fields of its JSON body.                *)
(***************************************************************************)
\* an absent header or body field
NoValue == "<undefined>"

\* process.env.SECRET_KEY
SECRET_KEY == "secret"

Secrets == {NoValue, "wrong", SECRET_KEY}

\* truthiness of a string-or-undefined value
Present(s) == s # NoValue /\ s # ""

\* a 12-digit national number, and the same number in canonical form
NationalNumber == <<"0","8","1","2","3","4","5","6","7","8","9","0">>

CanonicalNumber ==
    <<"6","2","8","1","2","3","4","5","6","7","8","9","0","@","c",".","u","s">>

Text == Str(<<"h","i">>)

\* the number and message fields of the request bodies tried
Bodies ==
    { [number |-> Undef,                    message |-> Text],
      [number |-> Str(NationalNumber),      message |-> Undef],
      [number |-> Num(812345678),           message |-> Text],
      [number |-> Str(<<"1","2","3">>),     message |-> Text],
      [number |-> Str(NationalNumber),      message |-> Text],
      [number |-> Str(CanonicalNumber),     message |-> Text] }

SendRequests ==
    { [header |-> h, secret_key |-> k, number |-> b.number, message |-> b.message] :
        h \in Secrets, k \in Secrets, b \in Bodies }

PlainRequests == [header : Secrets, secret_key : Secrets]

\* the secret the middleware reads: req.headers['x-secret-key'] || req.body.secret_key
SecretOf(req) == IF Present(req.header) THEN req.header ELSE req.secret_key

\* a middleware that only requires some secret to be present
validateSecretKeyPresenceOnly(req) == IF ~Present(SecretOf(req)) THEN 401 ELSE 0

\* validateSecretKey: 0 when next() is called, else the status it responds with
validateSecretKey(req) ==
    LET secretKey == SecretOf(req)
    IN  IF ~Present(secretKey) THEN 401
        ELSE IF secretKey # SECRET_KEY THEN 401
        ELSE 0

\* what an arriving request did, with the secret it presented
Arrival(step, req) == [step EXCEPT !.cred = SecretOf(req)]

\* a gate that looks at clientState alone
ReadinessGateStateOnly == clientState = "CONNECTED" \/ clientState = "AUTHENTICATED"

\* the readiness gate of app.js:147 (TRUE when the request may go on)
ReadinessGate ==
    ~(~isClientReady \/ (clientState # "CONNECTED" /\ clientState # "AUTHENTICATED"))

(***************************************************************************)
(* POST /send-message, up to its first await (app.js:130-157).            *)
(***************************************************************************)
SendMessageRequest(req) ==
    IF validateSecretKey(req) # 0
    THEN /\ last' = Arrival(Respond("send", validateSecretKey(req), "Auth"), req)
         /\ UNCHANGED <<session, timers, requests>>
    ELSE IF ~Truthy(req.number) \/ ~Truthy(req.message)
    THEN /\ last' = Arrival(Respond("send", 400, "Validation"), req)
         /\ UNCHANGED <<session, timers, requests>>
    ELSE IF req.number.t # "str"
    THEN \* number.replace is not a function: TypeError outside the try block
         /\ last' = Arrival(Fault("send"), req)
         /\ UNCHANGED <<session, timers, requests>>
    ELSE IF ~isValidPhoneNumber(req.number.s)
    THEN /\ last' = Arrival(Respond("send", 400, "Validation"), req)
         /\ UNCHANGED <<session, timers, requests>>
    ELSE IF ~ReadinessGate
    THEN /\ last' = Arrival(Respond("send", 503, "NotReady"), req)
         /\ UNCHANGED <<session, timers, requests>>
    ELSE /\ Inflight < MaxInflight
         /\ sleeping' = sleeping (+)
                One([chatId |-> ChatIdOf(req.number.s), message |-> req.message])
         /\ last' = Arrival(Pending("send", "none"), req)
         /\ UNCHANGED <<session, timers, sending, statusPending, restartPending>>

(***************************************************************************)
(* sleep(2000) resolves: client.sendMessage is invoked (app.js:157-159).  *)
(***************************************************************************)
SendMessageResumes(r) ==
    /\ BagIn(r, sleeping)
    /\ sleeping' = sleeping (-) One(r)
    /\ sending' = sending (+) One(r)
    /\ last' = Pending("send_resume", "sendMessage")
    /\ UNCHANGED <<session, timers, statusPending, restartPending>>

(***************************************************************************)
(* client.sendMessage settles (app.js:159-199).  A rejection carries an   *)
(* error whose message is a string, or a value with no message at all.    *)
(***************************************************************************)
ChatNotFound == <<"C","h","a","t"," ","n","o","t"," ","f","o","u","n","d">>

NotRegistered ==
    <<"p","h","o","n","e"," ","n","u","m","b","e","r"," ","i","s"," ",
      "n","o","t"," ","r","e","g","i","s","t","e","r","e","d">>

EvaluationFailed ==
    <<"E","v","a","l","u","a","t","i","o","n"," ","f","a","i","l","e","d">>

ErrorMessages ==
    { ChatNotFound,
      <<"c","h","a","t"," ","n","o","t"," ","f","o","u","n","d">>,
      NotRegistered,
      EvaluationFailed,
      EvaluationFailed \o <<":"," ">> \o ChatNotFound,
      EvaluationFailed \o <<":"," ">> \o NotRegistered,
      <<"e","v","a","l","u","a","t","i","o","n"," ","f","a","i","l","e","d">>,
      <<"t","i","m","e","o","u","t">>,
      <<>> }

SendResults ==
    {[ok |-> TRUE, message |-> Undef]}
        \cup {[ok |-> FALSE, message |-> Str(m)] : m \in ErrorMessages}
        \cup {[ok |-> FALSE, message |-> Undef]}

\* the if-chain with the session-fault test moved to the front
ClassifyFaultFirst(message) ==
    IF Includes(message, EvaluationFailed) THEN "TransportFaulted"
    ELSE IF Includes(message, ChatNotFound) THEN "RecipientInvalid"
    ELSE IF Includes(message, NotRegistered) THEN "RecipientUnregistered"
    ELSE "Unknown"

\* the if-chain of the catch block, app.js:171-198
Classify(message) ==
    IF Includes(message, ChatNotFound) THEN "RecipientInvalid"
    ELSE IF Includes(message, NotRegistered) THEN "RecipientUnregistered"
    ELSE IF Includes(message, EvaluationFailed) THEN "TransportFaulted"
    ELSE "Unknown"

StatusOf(kind) ==
    CASE kind = "RecipientInvalid"      -> 404
      [] kind = "RecipientUnregistered" -> 404
      [] kind = "TransportFaulted"      -> 503
      [] kind = "Unknown"               -> 500

SendMessageResult(r, result) ==
    /\ BagIn(r, sending)
    /\ sending' = sending (-) One(r)
    /\ UNCHANGED <<timers, sleeping, statusPending, restartPending>>
    /\ IF result.ok
       THEN /\ last' = Respond("send_result", 200, "Sent")
            /\ UNCHANGED session
       ELSE IF result.message.t # "str"
       THEN \* error.message.includes throws inside the catch block
            /\ last' = Fault("send_result")
            /\ UNCHANGED session
       ELSE LET kind == Classify(result.message.s) IN
            /\ IF kind = "TransportFaulted"
               THEN isClientReady' = FALSE /\ clientState' = "ERROR"
               ELSE UNCHANGED session
            /\ last' = [Respond("send_result", StatusOf(kind), kind) EXCEPT
                           !.error = IF kind = "Unknown" THEN result.message.s ELSE <<>>]

(***************************************************************************)
(* GET /status (app.js:202-234).                                           *)
(***************************************************************************)
\* states client.getState() resolves with
TransportStates == {"CONNECTED", "UNPAIRED"}

StatusResults ==
    {[ok |-> TRUE, state |-> s] : s \in TransportStates} \cup {[ok |-> FALSE, state |-> "-"]}

StatusBody(state, ready) ==
    [Respond("status", 200, "Status") EXCEPT !.state = state, !.ready = ready]

StatusRequest(req) ==
    IF validateSecretKey(req) # 0
    THEN /\ last' = Arrival(Respond("status", validateSecretKey(req), "Auth"), req)
         /\ UNCHANGED <<session, timers, requests>>
    ELSE IF isClientReady
    THEN /\ Inflight < MaxInflight
         /\ statusPending' = statusPending (+) One([currentState |-> clientState])
         /\ last' = Arrival(Pending("status", "getState"), req)
         /\ UNCHANGED <<session, timers, sleeping, sending, restartPending>>
    ELSE /\ last' = Arrival(StatusBody(clientState, isClientReady), req)
         /\ UNCHANGED <<session, timers, requests>>

StatusResult(r, result) ==
    /\ BagIn(r, statusPending)
    /\ statusPending' = statusPending (-) One(r)
    /\ UNCHANGED <<clientState, timers, sleeping, sending, restartPending>>
    /\ IF result.ok
       THEN /\ UNCHANGED isClientReady
            /\ last' = [StatusBody(result.state, isClientReady) EXCEPT !.op = "status_result"]
       ELSE /\ isClientReady' = FALSE
            /\ last' = [StatusBody("ERROR", FALSE) EXCEPT !.op = "status_result"]

(***************************************************************************)
(* GET /restart (app.js:236-259).                                          *)
(***************************************************************************)
RestartRequest(req) ==
    IF validateSecretKey(req) # 0
    THEN /\ last' = Arrival(Respond("restart", validateSecretKey(req), "Auth"), req)
         /\ UNCHANGED <<session, timers, requests>>
    ELSE /\ Inflight < MaxInflight
         /\ isClientReady' = FALSE
         /\ clientState' = "RESTARTING"
         /\ restartPending' = restartPending + 1
         /\ last' = Arrival(Pending("restart", "destroy"), req)
         /\ UNCHANGED <<timers, sleeping, sending, statusPending>>

\* client.destroy() settles
RestartResult(ok) ==
    /\ restartPending > 0
    /\ restartPending' = restartPending - 1
    /\ UNCHANGED <<session, sleeping, sending, statusPending>>
    /\ IF ok
       THEN /\ BagCardinality(timers) < MaxTimers
            /\ timers' = timers (+) One("init")
            /\ last' = Respond("restart_result", 200, "Restarting")
       ELSE /\ UNCHANGED timers
            /\ last' = Respond("restart_result", 500, "RestartFailed")

Lifecycle ==
    \/ OnQr
    \/ OnReady
    \/ OnAuthenticated
    \/ OnAuthFailure
    \/ OnDisconnected
    \/ \E percent \in Percents : OnLoadingScreen(percent)

TimerFires ==
    \E t \in BagToSet(timers) :
        \/ AuthTimerFires(t)
        \/ LoadTimerFires(t)
        \/ InitTimerFires(t)

Http ==
    \/ \E req \in SendRequests : SendMessageRequest(req)
    \/ \E r \in BagToSet(sleeping) : SendMessageResumes(r)
    \/ \E r \in BagToSet(sending), result \in SendResults : SendMessageResult(r, result)
    \/ \E req \in PlainRequests : StatusRequest(req)
    \/ \E r \in BagToSet(statusPending), result \in StatusResults : StatusResult(r, result)
    \/ \E req \in PlainRequests : RestartRequest(req)
    \/ \E ok \in BOOLEAN : RestartResult(ok)

Next ==
    \/ Lifecycle
    \/ TimerFires
    \/ Http

Spec == Init /\ [][Next]_vars

\* what the transport and the event loop guarantee: a pending timer fires, and
\* client.destroy() settles
FairSpec ==
    /\ Spec
    /\ WF_vars(TimerFires)
    /\ WF_vars(\E ok \in BOOLEAN : RestartResult(ok))

(***************************************************************************)
(* The normalizer on its own: the validation and chatId computation of    *)
(* POST /send-message (app.js:140-154) applied to one raw number, and     *)
(* then to the address it produced.  The run is kept in `last`:           *)
(*   op = "raw"          raw is the number submitted                      *)
(*   op = "validated"    valid is isValidPhoneNumber(raw)                 *)
(*   op = "normalized"   chatId is the address computed for a valid raw   *)
(*   op = "resubmitted"  first is that address, submitted as a number:    *)
(*                       valid is its validation, chatId its address      *)
(*                       (<<>> when it is rejected)                       *)
(***************************************************************************)
\* digits appended after the leading characters of a raw number
MaxFill == 16

Repeat(c, n) == [i \in 1..n |-> c]

Leads ==
    { <<>>, <<"0">>, <<"6","2">>, <<"+","6","2">>, <<"8">>, <<"6">>,
      <<"0","0">>, <<"0","6","2">> }

Tails == { <<>>, <<"-","7">>, DomainSuffix, DomainSuffix \o <<"7">> }

RawInputs ==
    {NationalNumber, CanonicalNumber}
        \cup {l \o Repeat("8", n) \o t : l \in Leads, n \in 0..MaxFill, t \in Tails}

NormInit ==
    /\ isClientReady = FALSE
    /\ clientState = "INITIALIZING"
    /\ timers = EmptyBag
    /\ sleeping = EmptyBag
    /\ sending = EmptyBag
    /\ statusPending = EmptyBag
    /\ restartPending = 0
    /\ \E raw \in RawInputs : last = [op |-> "raw", raw |-> raw]

\* app.js:140
NormValidate ==
    /\ last.op = "raw"
    /\ last' = [op |-> "validated", raw |-> last.raw,
                valid |-> isValidPhoneNumber(last.raw)]
    /\ UNCHANGED <<session, timers, requests>>

\* app.js:154
NormFormat ==
    /\ last.op = "validated" /\ last.valid
    /\ last' = [op |-> "normalized", raw |-> last.raw, chatId |-> ChatIdOf(last.raw)]
    /\ UNCHANGED <<session, timers, requests>>

\* app.js:140-154 on the address just produced
NormResubmit ==
    /\ last.op = "normalized"
    /\ last' = [op |-> "resubmitted", raw |-> last.raw, first |-> last.chatId,
                valid |-> isValidPhoneNumber(last.chatId),
                chatId |-> IF isValidPhoneNumber(last.chatId)
                           THEN ChatIdOf(last.chatId) ELSE <<>>]
    /\ UNCHANGED <<session, timers, requests>>

NormNext ==
    \/ NormValidate
    \/ NormFormat
    \/ NormResubmit

NormSpec == NormInit /\ [][NormNext]_vars

(***************************************************************************)
(* Properties.                                                             *)
(***************************************************************************)
DispatchStates == {"CONNECTED", "AUTHENTICATED"}

\* the step is a /send-message request that got past authentication and
\* validation, i.e. reached the readiness gate of app.js:147
SendReachedGate ==
    /\ last'.op = "send"
    /\ last'.outcome # "fault"
    /\ last'.kind \notin {"Auth", "Validation"}

\* C1 (readiness gate): a /send-message request that reaches the gate while
\* isClientReady is false, or while clientState is neither CONNECTED nor
\* AUTHENTICATED, is answered 503, invokes no transport operation, is not
\* queued for a later sendMessage, and leaves clientState, isClientReady and the
\* timers as they were.
C1_ReadinessGate ==
    [][( /\ SendReachedGate
         /\ (~isClientReady \/ clientState \notin DispatchStates) )
       => ( /\ last'.outcome = "responded"
            /\ last'.code = 503
            /\ last'.call = "none"
            /\ sleeping' = sleeping /\ sending' = sending
            /\ clientState' = clientState /\ isClientReady' = isClientReady
            /\ timers' = timers )]_vars

\* C1 witness: a dispatch while the state is DISCONNECTED was answered 503
C1_Witness ==
    /\ last.op = "send" /\ last.code = 503 /\ last.kind = "NotReady"
    /\ clientState = "DISCONNECTED" /\ ~isClientReady

LifecycleOps == {"qr", "ready", "authenticated", "auth_failure", "disconnected", "loading_screen"}

GraceTimerOps == {"auth_timer", "load_timer"}

\* C2 (grace-timer race): a grace timer that fires while clientState is
\* DISCONNECTED (the disconnected event was processed after the timer was armed,
\* arming sets AUTHENTICATED or LOADING) neither sets clientState to CONNECTED nor
\* sets isClientReady to true.
C2_GraceTimerRace ==
    [][(last'.op \in GraceTimerOps /\ clientState = "DISCONNECTED")
       => (clientState' # "CONNECTED" /\ ~isClientReady')]_vars

\* C3 (readiness invariant): isClientReady implies clientState is AUTHENTICATED
\* or CONNECTED.
C3_ReadyImpliesState ==
    isClientReady => clientState \in {"AUTHENTICATED", "CONNECTED"}

\* C4 (restart is destructive): client.sendMessage is never invoked while
\* clientState is RESTARTING.
C4_NoSendWhileRestarting ==
    last.call = "sendMessage" => clientState # "RESTARTING"

\* C5 (restart): a restart request sets RESTARTING with isClientReady false, and
\* from RESTARTING the state eventually becomes INITIALIZING again, unless a
\* teardown fails (then no re-initialize timer is armed).
C5_RestartLeadsToInitializing ==
    /\ [][last'.outcome = "pending" /\ last'.op = "restart"
            => clientState' = "RESTARTING" /\ ~isClientReady']_vars
    /\ (clientState = "RESTARTING")
           ~> (clientState = "INITIALIZING" \/ last.kind = "RestartFailed")

\* C6 (transport fault): after a send fails with "Evaluation failed" the state is
\* ERROR with isClientReady false, and it stays so under every step that is
\* neither a transport lifecycle event nor a restart request.
C6_ErrorIsSticky ==
    [][( /\ last'.kind = "TransportFaulted"
            => (last'.code = 503 /\ clientState' = "ERROR" /\ ~isClientReady') )
       /\ ( (clientState = "ERROR" /\ ~isClientReady
              /\ last'.op \notin LifecycleOps \cup {"restart"})
            => (clientState' = "ERROR" /\ ~isClientReady') )]_vars

\* C7 (no uncaught fault): a /send-message request never ends in a fault that
\* escapes the handler; it ends with one response among 200, 400, 503, 404, 500.
C7_NoUncaughtFault ==
    last.op \in {"send", "send_result"} /\ last.cred \in {"-", SECRET_KEY}
        => ( /\ last.outcome # "fault"
             /\ last.outcome = "responded" => last.code \in {200, 400, 503, 404, 500} )

\* String.prototype.toLowerCase over the letters the messages use
LowerChar(c) == CASE c = "C" -> "c" [] c = "E" -> "e" [] OTHER -> c

Lower(s) == [i \in 1..Len(s) |-> LowerChar(s[i])]

\* the kind the claim gives a failure message, with its three signatures matched
\* by the test Matches
KindByOrder(m, Matches(_, _)) ==
    IF Matches(m, ChatNotFound) THEN "RecipientInvalid"
    ELSE IF Matches(m, NotRegistered) THEN "RecipientUnregistered"
    ELSE IF Matches(m, EvaluationFailed) THEN "TransportFaulted"
    ELSE "Unknown"

KindStatus == [RecipientInvalid |-> 404, RecipientUnregistered |-> 404,
               TransportFaulted |-> 503, Unknown |-> 500]

\* what a send_result step must look like when the send failed with message m
\* and the claim classifies it as kind
ClassifiedAs(kind, m) ==
    /\ last'.kind = kind
    /\ last'.code = KindStatus[kind]
    /\ kind = "Unknown" => last'.error = m
    /\ IF kind = "TransportFaulted"
       THEN clientState' = "ERROR" /\ ~isClientReady'
       ELSE clientState' = clientState /\ isClientReady' = isClientReady

SendResultsClassified(Matches(_, _)) ==
    last'.op = "send_result" =>
        \A r \in BagToSet(sending) :
            /\ SendMessageResult(r, [ok |-> TRUE, message |-> Undef])
                  => ( /\ last'.kind = "Sent" /\ last'.code = 200
                       /\ clientState' = clientState /\ isClientReady' = isClientReady )
            /\ \A m \in ErrorMessages :
                  SendMessageResult(r, [ok |-> FALSE, message |-> Str(m)])
                      => ClassifiedAs(KindByOrder(m, Matches), m)

MatchesExactly(m, signature) == Includes(m, signature)

MatchesAnyCase(m, signature) == Includes(Lower(m), Lower(signature))

\* C8 as stated (signatures "chat not found", "phone number is not registered",
\* "evaluation failed" matched without regard to letter case): a failed send is
\* classified in that order, and only TransportFaulted changes the session.
C8_ClassificationAnyCase == [][SendResultsClassified(MatchesAnyCase)]_vars

\* C8 as amended: the same order and the same side effects, with the signatures
\* "Chat not found", "phone number is not registered" and "Evaluation failed"
\* matched as case-sensitive substrings of the failure message.
C8_Classification == [][SendResultsClassified(MatchesExactly)]_vars

\* C8 witness: a failed send was classified RecipientInvalid, answered 404, and
\* left the session connected and ready
C8_Witness ==
    /\ last.op = "send_result" /\ last.kind = "RecipientInvalid" /\ last.code = 404
    /\ isClientReady /\ clientState = "CONNECTED"

RequestOps == {"send", "status", "restart"}

\* C9 (authentication): a request to any of the three endpoints whose secret is
\* missing or differs from SECRET_KEY is answered 401 and has no effect: the
\* session, the timers and the suspended requests are unchanged and no transport
\* operation is invoked.
C9_Unauthenticated ==
    [][(last'.op \in RequestOps /\ last'.cred # SECRET_KEY)
       => ( /\ last'.outcome = "responded" /\ last'.code = 401
            /\ last'.call = "none"
            /\ clientState' = clientState /\ isClientReady' = isClientReady
            /\ timers' = timers
            /\ sleeping' = sleeping /\ sending' = sending
            /\ statusPending' = statusPending
            /\ restartPending' = restartPending )]_vars

\* C9 witness: a /restart request with a wrong secret was answered 401 while the
\* session was connected and ready
C9_Witness ==
    /\ last.op = "restart" /\ last.cred = "wrong" /\ last.code = 401
    /\ clientState = "CONNECTED" /\ isClientReady

\* C10 (status fallback): when client.getState() fails, the /status response is
\* 200 and its clientState field is the clientState read when the request
\* arrived (the last-known state).
C10_StatusFallsBack ==
    [][last'.op = "status_result" =>
          \A r \in BagToSet(statusPending) :
              StatusResult(r, [ok |-> FALSE, state |-> "-"])
                  => (last'.code = 200 /\ last'.state = r.currentState)]_vars

\* C11 (status is read-only): a /status step, whatever client.getState() gives,
\* leaves clientState and isClientReady as they were; they change only in
\* lifecycle handlers, grace timers, restart requests and the transport-fault
\* branch of /send-message.
C11_StatusReadOnly ==
    [][( last'.op \in {"status", "status_result"}
            => (clientState' = clientState /\ isClientReady' = isClientReady) )
       /\ ( (clientState' # clientState \/ isClientReady' # isClientReady)
            => ( \/ last'.op \in LifecycleOps \cup GraceTimerOps \cup {"restart"}
                 \/ last'.kind = "TransportFaulted" ) )]_vars

\* C12 (restart is idempotent): at any instant at most one re-initialize timer
\* is pending, so overlapping restarts initialize the transport once.
C12_OneReinitPending == CopiesIn("init", timers) <= 1

SessionStates ==
    {"INITIALIZING", "AUTHENTICATED", "CONNECTED", "LOADING", "AUTH_FAILURE",
     "DISCONNECTED", "ERROR", "RESTARTING"}

\* C13 as stated: clientState is one of the nine values INITIALIZING, QR_PENDING,
\* AUTHENTICATED, CONNECTED, LOADING, AUTH_FAILURE, DISCONNECTED, ERROR,
\* RESTARTING, and the 'qr' event leaves it QR_PENDING with isClientReady false.
C13_StatesWithQrPending ==
    /\ clientState \in SessionStates \cup {"QR_PENDING"}
    /\ last.op = "qr" => (clientState = "QR_PENDING" /\ ~isClientReady)

\* C13 as amended: the same, with the state after the 'qr' event named
\* QR_GENERATED.
C13_States ==
    /\ clientState \in SessionStates \cup {"QR_GENERATED"}
    /\ last.op = "qr" => (clientState = "QR_GENERATED" /\ ~isClientReady)

\* C13 witness: the 'qr' handler was the last step to run
C13_Witness == last.op = "qr" /\ clientState = "QR_GENERATED" /\ ~isClientReady

\* the number of digits of a string
DigitCount(str) == Cardinality({i \in 1..Len(str) : str[i] \in Digits})

\* str is a run of digits followed by "@c.us"
DigitsThenSuffix(str) ==
    /\ Len(str) >= Len(DomainSuffix)
    /\ SubSeq(str, Len(str) - Len(DomainSuffix) + 1, Len(str)) = DomainSuffix
    /\ \A i \in 1..(Len(str) - Len(DomainSuffix)) : str[i] \in Digits

\* what C14 says of one run of the normalizer, the digits gained being in Gains
\* and the inputs covered being those that satisfy Covered
NormalizerContract(Gains, Covered(_)) ==
    /\ last.op = "validated" => (last.valid <=> DigitCount(last.raw) \in 10..15)
    /\ (last.op = "normalized" /\ Covered(last.raw)) =>
          /\ DigitsThenSuffix(last.chatId)
          /\ DigitCount(last.chatId) - DigitCount(last.raw) \in Gains
    /\ (last.op = "normalized" /\ last.raw = NationalNumber) =>
          last.chatId = CanonicalNumber

AnyInput(raw) == TRUE

NotSuffixed(raw) ==
    \A i \in 1..Len(raw) : i + 4 > Len(raw) \/ SubSeq(raw, i, i + 4) # DomainSuffix

\* C14 as stated: a raw input with 10 to 15 digits is accepted and its address
\* is digits followed by "@c.us", with as many digits as the input or two more;
\* any other input fails validation; "081234567890" gives "6281234567890@c.us".
C14_NormalizerZeroOrTwo == NormalizerContract({0, 2}, AnyInput)

\* C14 as amended: the same for raw inputs that do not already contain "@c.us",
\* the address having as many digits as the input, one more, or two more.
C14_Normalizer == NormalizerContract({0, 1, 2}, NotSuffixed)

\* C14 witness: a number with a leading 0 was normalized and gained one digit
C14_Witness ==
    /\ last.op = "normalized" /\ NotSuffixed(last.raw)
    /\ DigitCount(last.chatId) = DigitCount(last.raw) + 1

\* C15 (idempotence): the address produced for an accepted number is itself
\* accepted when submitted as the number, and yields the same address.
C15_Idempotent ==
    last.op = "resubmitted" => (last.valid /\ last.chatId = last.first)

\* C16 (grace promotion): the 'authenticated' event sets AUTHENTICATED, leaves
\* isClientReady alone and arms one timer; that timer promotes to CONNECTED and
\* ready when clientState is AUTHENTICATED as it fires and changes nothing
\* otherwise; and from AUTHENTICATED the session eventually is CONNECTED and
\* ready, unless an event, a restart or a transport fault moves clientState
\* elsewhere first.
C16_GracePromotion ==
    /\ [][( last'.op = "authenticated"
              => ( /\ clientState' = "AUTHENTICATED"
                   /\ isClientReady' = isClientReady
                   /\ timers' = timers (+) One("auth") ) )
          /\ ( last'.op = "auth_timer"
              => ( /\ timers' = timers (-) One("auth")
                   /\ IF clientState = "AUTHENTICATED"
                      THEN clientState' = "CONNECTED" /\ isClientReady'
                      ELSE clientState' = clientState
                           /\ isClientReady' = isClientReady ) )]_vars
    /\ (clientState = "AUTHENTICATED")
           ~> ( \/ clientState = "CONNECTED" /\ isClientReady
                \/ clientState \notin {"AUTHENTICATED", "CONNECTED"} )

\* C16 witness: the 5 s timer fired and promoted the session
C16_Witness ==
    last.op = "auth_timer" /\ clientState = "CONNECTED" /\ isClientReady

\* C17 (AUTH_FAILURE is terminal until restart): once clientState is AUTH_FAILURE
\* with isClientReady false, both stay so under every step that is neither a
\* transport lifecycle event nor a restart request, pending timers included.
C17_AuthFailureIsSticky ==
    [][( /\ clientState = "AUTH_FAILURE" /\ ~isClientReady
         /\ last'.op \notin LifecycleOps \cup {"restart"} )
       => (clientState' = "AUTH_FAILURE" /\ ~isClientReady')]_vars

\* C18 (converse of the readiness contract): clientState = CONNECTED implies
\* isClientReady.
C18_ConnectedImpliesReady == clientState = "CONNECTED" => isClientReady

\* C19 (failed teardown): when client.destroy() faults the /restart request is
\* answered 500, arms no timer and leaves the session as the request set it
\* (RESTARTING, not ready); and the session then stays not ready under every
\* step that is neither a transport lifecycle event nor a restart request.
C19_FailedTeardown ==
    [][( (last'.op = "restart_result" /\ last'.code = 500)
            => ( /\ last'.outcome = "responded"
                 /\ timers' = timers
                 /\ clientState' = clientState /\ isClientReady' = isClientReady ) )
       /\ ( ( /\ last.kind = "RestartFailed"
              /\ clientState = "RESTARTING" /\ ~isClientReady
              /\ last'.op \notin LifecycleOps \cup {"restart"} )
            => ~isClientReady' )]_vars
====
